---------------------------- MODULE Spec2Model ----------------------------
(***************************************************************************)
(* A model of the CSV sniffer of src/unnamed/part_001 (the current         *)
(* variant; src/index.js is the legacy variant).                           *)
(*                                                                         *)
(* A JavaScript string is a sequence of one-character strings, positions   *)
(* are 0-based as in the source (charAt).  null and undefined are the      *)
(* one-element sequences Null and Undefined, whose element is not a        *)
(* character, so they differ from every string.                            *)
(***************************************************************************)
EXTENDS Integers, Sequences, FiniteSets, TLC

VARIABLES
    delimiters,     \* this.delimiters of the sniffer (an array of characters, or Undefined)
    pc,             \* "idle", then where the last call ended: "returned", "thrown", "parsed", "guessed"
    sample,         \* the sample argument of the last call
    options,        \* the options argument of the last call
    result,         \* the object the last call returned (NoResult when none)
    quoteAndDelim,  \* the local quoteAndDelim of sniff (NoGuess when the guesser did not run)
    parsedSample,   \* the local parsedSample of sniff, as returned by parseSample
    quote,          \* the undeclared (global) variable quote of guessQuoteAndDelimiter
    newlinePos,     \* the undeclared (global) variable newlinePos of getNewlineStr
    curType,        \* the accumulated type of a column being folded
    column          \* the values folded into it so far

vars == <<delimiters, pc, sample, options, result, quoteAndDelim, parsedSample,
          quote, newlinePos, curType, column>>

-----------------------------------------------------------------------------
(* Values *)

Null == <<"null">>
Undefined == <<"undefined">>

True == <<"true">>
False == <<"false">>

\* JavaScript truthiness of a string, boolean, null or undefined.
Truthy(v) == v # Null /\ v # Undefined /\ v # <<>> /\ v # False

LF == <<"\n">>
CR == <<"\r">>
CRLF == <<"\r", "\n">>
LFCR == <<"\n", "\r">>

\* The characters the model uses, in increasing character code.  There is no
\* "0", "e", "x" or "I" among them, so every numeric literal over them is a
\* plain signed decimal.
Ascii == <<"\t", "\n", "\r", " ", "\"", "'", "+", ",", "-", ".", "1", "2", "3",
           "4", "5", "6", ";", "\\", "a", "b", "c", "l", "n", "u", "|">>

charCodeAt(c) == CHOOSE i \in 1..Len(Ascii) : Ascii[i] = c

Min(S) == CHOOSE x \in S : \A y \in S : x <= y
Max(S) == CHOOSE x \in S : \A y \in S : x >= y
Abs(x) == IF x < 0 THEN -x ELSE x

RECURSIVE SumSeq(_)
SumSeq(s) == IF s = <<>> THEN 0 ELSE Head(s) + SumSeq(Tail(s))

\* String.prototype.charAt: "" beyond the end.
charAt(s, i) == IF i >= 0 /\ i < Len(s) THEN s[i + 1] ELSE ""

\* String.prototype.indexOf(t, from) for a non-empty t: -1 when absent.
indexOf(s, t, from) ==
    LET hits == {i \in from..(Len(s) - Len(t)) : \A j \in 1..Len(t) : s[i + j] = t[j]}
    IN  IF hits = {} THEN -1 ELSE Min(hits)

\* s.substring(a, b)
substring(s, a, b) == [k \in 1..(b - a) |-> s[a + k]]

-----------------------------------------------------------------------------
(* getNewlineStr *)

candidates == <<CRLF, LFCR, LF, CR>>

threshold == 5

\* The while loop of one candidate: the lengths of the lines it induces.
RECURSIVE lineLengths(_, _, _)
lineLengths(s, newlineStr, curPos) ==
    LET p == indexOf(s, newlineStr, curPos)
    IN  IF p > -1
        THEN <<p - curPos>> \o lineLengths(s, newlineStr, p + Len(newlineStr))
        ELSE <<>>

\* nrLines, as the tuple of the counts of the candidates in their order.
nrLinesOf(s) ==
    <<1 + Len(lineLengths(s, CRLF, 0)), 1 + Len(lineLengths(s, LFCR, 0)),
      1 + Len(lineLengths(s, LF, 0)), 1 + Len(lineLengths(s, CR, 0))>>

\* One round of the elimination: a one-character candidate with as many
\* lines as the two-character candidate two is reset to one line.
eliminate(nrLines, two) ==
    IF nrLines[two] > 1
    THEN <<nrLines[1], nrLines[2],
           IF nrLines[3] = nrLines[two] THEN 1 ELSE nrLines[3],
           IF nrLines[4] = nrLines[two] THEN 1 ELSE nrLines[4]>>
    ELSE nrLines

\* The score of a candidate in the final round, absSum / l.length / avg, as
\* the fraction num / den; it is NaN exactly when every line length is 0.
scoreOf(l) ==
    LET sum == SumSeq(l)
        n == Len(l)
    IN  [nan |-> sum = 0,
         num |-> SumSeq([k \in 1..n |-> Abs(n * l[k] - sum)]),
         den |-> n * sum]

RECURSIVE scored(_, _, _, _, _, _)

\* score < winnerScore, for a winnerScore that is Infinity (inf) or a fraction.
less(score, w) ==
    /\ ~score.nan
    /\ \/ w.inf
       \/ score.num * w.den < w.num * score.den

\* The score and winnerScore are the same fraction.
tie(score, w) ==
    /\ ~score.nan
    /\ ~w.inf
    /\ score.num * w.den = w.num * score.den

\* The final round from candidate k on; winner is Null and winnerScore
\* Infinity (inf) at the start.  The source compares the scores as doubles:
\* two scores that are equal as fractions may compare either way after
\* rounding, so on an exact tie both outcomes of score < winnerScore are kept
\* and the result is the set of possible winners.
RECURSIVE finalRound(_, _, _, _)
finalRound(s, remainers, k, w) ==
    IF k > Len(remainers) THEN {w.winner}
    ELSE scored(s, remainers, k, w, candidates[remainers[k]],
                scoreOf(lineLengths(s, candidates[remainers[k]], 0)))

\* The body of the forEach for the candidate c with its score.
scored(s, remainers, k, w, c, score) ==
    (IF less(score, w) \/ tie(score, w)
     THEN finalRound(s, remainers, k + 1,
                     [winner |-> c, inf |-> FALSE, num |-> score.num, den |-> score.den])
     ELSE {})
    \cup
    (IF ~less(score, w) THEN finalRound(s, remainers, k + 1, w) ELSE {})

\* The final round with winnerScore started at 0 instead of Infinity.
getNewlineStrFromZero(s, remainers) ==
    finalRound(s, remainers, 1, [winner |-> Null, inf |-> FALSE, num |-> 0, den |-> 1])

getNewlineStrFinal(s, remainers) ==
    finalRound(s, remainers, 1, [winner |-> Null, inf |-> TRUE, num |-> 0, den |-> 1])

\* nrLines once the one-character candidates covered by a two-character
\* candidate are eliminated.
nrLinesLeft(s) == eliminate(eliminate(nrLinesOf(s), 1), 2)

remainingCandidates(nrLines) == SelectSeq(<<1, 2, 3, 4>>, LAMBDA c : nrLines[c] > 1)

finalRemainers(nrLines) == SelectSeq(<<1, 2, 3, 4>>, LAMBDA c : nrLines[c] > threshold)

\* remainingCandidates.some(...): the first candidate with maxNrLines.
mostLines(nrLines, remaining) ==
    Head(SelectSeq(remaining, LAMBDA c :
        nrLines[c] = Max({nrLines[remaining[k]] : k \in 1..Len(remaining)})))

\* The returns of getNewlineStr, given its lists.
winnerOf(s, nrLines, remaining, final) ==
    IF Len(remaining) = 0 THEN {Null}
    ELSE IF Len(remaining) = 1 THEN {candidates[remaining[1]]}
    ELSE IF Len(final) = 0 THEN {candidates[mostLines(nrLines, remaining)]}
    ELSE IF Len(final) = 1 THEN {candidates[final[1]]}
    ELSE getNewlineStrFinal(s, final)

getNewlineStrOf(s, nrLines) ==
    winnerOf(s, nrLines, remainingCandidates(nrLines), finalRemainers(nrLines))

\* The set of values getNewlineStr can return for s: one value, except on an
\* exact tie of the final round.
getNewlineStr(s) == getNewlineStrOf(s, nrLinesLeft(s))

-----------------------------------------------------------------------------
(* guessQuoteAndDelimiter *)

\* \s of a regular expression, over the characters of the model.
IsSpace(c) == c \in {" ", "\t", "\n", "\r"}

\* (["'])
IsQuote(c) == c \in {"\"", "'"}

nlChars(newlineStr) == {newlineStr[k] : k \in 1..Len(newlineStr)}

\* The class delimiter, ([^<nl>"']): nl is newlineStr with its \n and \r
\* escaped, so the class excludes the characters of newlineStr and the quotes.
delimiterClass(c, newlineStr) == c \notin nlChars(newlineStr) /\ ~IsQuote(c)

\* The class of content, [^<nl>]
contentClass(c, newlineStr) == c \notin nlChars(newlineStr)

\* Where \s*? followed by a non-space item can place that item from position
\* p on: the first position that holds no space (Len(s) when there is none).
firstNonSpace(s, p) ==
    Min({i \in p..(Len(s) - 1) : ~IsSpace(s[i + 1])} \cup {Len(s)})

\* The positions of a closing quote for the quote at q: content*? then \q,
\* tried from the nearest on.
closers(s, q, newlineStr) ==
    {e \in (q + 1)..(Len(s) - 1) :
        /\ s[e + 1] = s[q + 1]
        /\ \A k \in (q + 1)..(e - 1) : contentClass(s[k + 1], newlineStr)}

NoMatch == [end |-> -1, delim |-> "", quote |-> ""]

\* "\s*?" + "\1" after the closing quote at e: the end of the match, or -1.
tailBackref(s, e, d) ==
    LET j == Min({i \in (e + 1)..(Len(s) - 1) : s[i + 1] = d \/ ~IsSpace(s[i + 1])}
                 \cup {Len(s)})
    IN  IF j < Len(s) /\ s[j + 1] = d THEN j + 1 ELSE -1

\* "\s*?" + delimiter after the closing quote at e: the position of the
\* delimiter, or -1.
tailDelimiter(s, e, newlineStr) ==
    LET j == Min({i \in (e + 1)..(Len(s) - 1) :
                     delimiterClass(s[i + 1], newlineStr) \/ ~IsSpace(s[i + 1])}
                 \cup {Len(s)})
    IN  IF j < Len(s) /\ delimiterClass(s[j + 1], newlineStr) THEN j ELSE -1

\* "\s*?" + "$" after the closing quote at e; the expressions carry the flag
\* g only, so $ is the end of the sample.
tailEnd(s, e) == \A i \in (e + 1)..(Len(s) - 1) : IsSpace(s[i + 1])

\* exprs[0] matched at position start: delimiter \s*? quote content \2 \s*? \1
matchBothSides(s, newlineStr, start) ==
    LET d == s[start + 1]
        q == firstNonSpace(s, start + 1)
        ok == {e \in closers(s, q, newlineStr) : tailBackref(s, e, d) # -1}
    IN  IF /\ delimiterClass(d, newlineStr)
           /\ q < Len(s)
           /\ IsQuote(s[q + 1])
           /\ ok # {}
        THEN [end |-> tailBackref(s, Min(ok), d), delim |-> d, quote |-> s[q + 1]]
        ELSE NoMatch

\* exprs[1]: ^ \s*? quote content \1 \s*? delimiter; without the flag m, ^ is
\* position 0 of the sample.
matchRightSide(s, newlineStr) ==
    LET q == firstNonSpace(s, 0)
        ok == {e \in closers(s, q, newlineStr) : tailDelimiter(s, e, newlineStr) # -1}
    IN  IF q < Len(s) /\ IsQuote(s[q + 1]) /\ ok # {}
        THEN LET j == tailDelimiter(s, Min(ok), newlineStr)
             IN  [end |-> j + 1, delim |-> s[j + 1], quote |-> s[q + 1]]
        ELSE NoMatch

\* exprs[2] matched at position start: delimiter \s*? quote content \2 \s*? $
matchLeftSide(s, newlineStr, start) ==
    LET d == s[start + 1]
        q == firstNonSpace(s, start + 1)
    IN  IF /\ delimiterClass(d, newlineStr)
           /\ q < Len(s)
           /\ IsQuote(s[q + 1])
           /\ \E e \in closers(s, q, newlineStr) : tailEnd(s, e)
        THEN [end |-> Len(s), delim |-> d, quote |-> s[q + 1]]
        ELSE NoMatch

\* exprs[3]: ^ \s*? quote content \1 \s*? $
matchJustQuotes(s, newlineStr) ==
    LET q == firstNonSpace(s, 0)
    IN  IF /\ q < Len(s)
           /\ IsQuote(s[q + 1])
           /\ \E e \in closers(s, q, newlineStr) : tailEnd(s, e)
        THEN [end |-> Len(s), delim |-> "", quote |-> s[q + 1]]
        ELSE NoMatch

\* while(matchesNew = d.expr.exec(sample)) for exprs[0], from lastIndex on:
\* the leftmost match, then on from its end.
RECURSIVE execBothSides(_, _, _)
execBothSides(s, newlineStr, lastIndex) ==
    LET starts == {i \in lastIndex..(Len(s) - 1) : matchBothSides(s, newlineStr, i).end # -1}
    IN  IF starts = {} THEN <<>>
        ELSE LET m == matchBothSides(s, newlineStr, Min(starts))
             IN  <<m>> \o execBothSides(s, newlineStr, m.end)

\* The same loop for exprs[2]: a match ends at the end of the sample, so
\* there is at most one.
execLeftSide(s, newlineStr) ==
    LET starts == {i \in 0..(Len(s) - 1) : matchLeftSide(s, newlineStr, i).end # -1}
    IN  IF starts = {} THEN <<>> ELSE <<matchLeftSide(s, newlineStr, Min(starts))>>

\* The same loop for an expression that starts with ^: one match at most.
execAnchored(m) == IF m.end # -1 THEN <<m>> ELSE <<>>

\* exprs.every(...): the matches of the first expression that has any.
every(m0, m1, m2, m3) ==
    IF m0 # <<>> THEN m0
    ELSE IF m1 # <<>> THEN m1
    ELSE IF m2 # <<>> THEN m2
    ELSE m3

matchesOf(s, newlineStr) ==
    every(execBothSides(s, newlineStr, 0),
          execAnchored(matchRightSide(s, newlineStr)),
          execLeftSide(s, newlineStr),
          execAnchored(matchJustQuotes(s, newlineStr)))

\* !delimiters || delimiters.indexOf(c) > -1
\* The filter left out: every character is allowed.
allowedAny(delims, c) == TRUE

allowed(delims, c) == delims = Undefined \/ \E k \in 1..Len(delims) : delims[k] = c

\* A property name that is an array index: Object.keys lists these first, in
\* increasing order, and the other names after them in insertion order.
IsIndexKey(c) == c \in {"1", "2", "3", "4", "5", "6"}

keyRank(xs, c) ==
    IF IsIndexKey(c) THEN charCodeAt(c)
    ELSE Len(Ascii) + Min({i \in 1..Len(xs) : xs[i] = c})

\* The key with the highest counter, the first such in the order of
\* Object.keys (the forEach replaces the winner on a strictly higher count).
mostVoted(xs) ==
    LET keys == {xs[i] : i \in 1..Len(xs)}
        count(c) == Cardinality({i \in 1..Len(xs) : xs[i] = c})
        best == {c \in keys : \A o \in keys : count(o) <= count(c)}
    IN  CHOOSE c \in best : \A o \in best : keyRank(xs, c) <= keyRank(xs, o)

\* The votes of the matches: the delimiters that are allowed, and the quotes.
delimVotes(matches, delims) ==
    LET voting == SelectSeq(matches, LAMBDA m : m.delim # "" /\ allowed(delims, m.delim))
    IN  [k \in 1..Len(voting) |-> voting[k].delim]

quoteVotes(matches) == [k \in 1..Len(matches) |-> matches[k].quote]

\* The variable quote keeps a value it already holds.
quoteKept(matches, g) ==
    IF Len(matches) = 0 \/ g # Undefined THEN g ELSE <<mostVoted(quoteVotes(matches))>>

\* The value of the variable quote when guessQuoteAndDelimiter returns: it is
\* assigned only in the forEach over the voted quotes, and keeps the value it
\* had (g) when there is no match.
quoteAfter(matches, g) ==
    IF Len(matches) = 0 THEN g ELSE <<mostVoted(quoteVotes(matches))>>

\* delim of the result: the most voted delimiter, null when no allowed
\* delimiter has a vote or when it is "\n".
delimAfter(dv) ==
    IF Len(dv) > 0 /\ mostVoted(dv) # "\n" THEN <<mostVoted(dv)>> ELSE Null

\* The return value for the matches found.
guessOf(matches, delims, g) ==
    IF Len(matches) = 0 THEN [delim |-> Null, quote |-> Null]
    ELSE [delim |-> delimAfter(delimVotes(matches, delims)),
          quote |-> quoteAfter(matches, g)]

guessQuoteAndDelimiter(s, newlineStr, delims, g) ==
    guessOf(matchesOf(s, newlineStr), delims, g)

-----------------------------------------------------------------------------
(* guessDelimiter *)

\* The first while loop: the lines of the sample that newlineStr ends.
RECURSIVE linesOf(_, _, _)
linesOf(s, newlineStr, curCharIndex) ==
    LET p == indexOf(s, newlineStr, curCharIndex)
    IN  IF p > -1
        THEN <<substring(s, curCharIndex, p)>> \o linesOf(s, newlineStr, p + Len(newlineStr))
        ELSE <<>>

\* ascii[c] of a line: how often c occurs on it.
occurrences(line, c) == Cardinality({i \in 1..Len(line) : line[i] = c})

\* freqTables[c][freq]: on how many lines c occurs freq times.
metaFreq(lines, c, freq) ==
    Cardinality({k \in 1..Len(lines) : occurrences(lines[k], c) = freq})

\* modes[c] = { maxFreq, mode }: the lowest frequency with the highest
\* meta-frequency, and 2 * that meta-frequency - the number of lines.
modeOf(lines, c) ==
    LET freqs == {occurrences(lines[k], c) : k \in 1..Len(lines)}
        top == Max({metaFreq(lines, c, f) : f \in freqs})
        maxFreq == Min({f \in freqs : metaFreq(lines, c, f) = top})
    IN  [maxFreq |-> maxFreq, mode |-> top - (Len(lines) - top)]

\* consistency, threshold and decreaseStep, in hundredths.  The doubles
\* 1.0, 0.99, ... that the source reaches by subtracting 0.01 are at most
\* 3e-16 below these, and the loop ends after the round of 0.81.
consistencyStart == 100
consistencyThreshold == 80
decreaseStep == 1

\* modes: the entries of the characters that occur on some line (a character
\* that occurs on no line is skipped and has no entry).
modesOf(lines) ==
    {[char |-> c, mode |-> modeOf(lines, c)] :
        c \in UNION {{lines[k][i] : i \in 1..Len(lines[k])} : k \in 1..Len(lines)}}

\* One pass of modes.forEach: the characters that pass at this consistency.
passing(modes, nrLines, delims, consistency) ==
    {m.char : m \in {e \in modes :
        /\ ~(e.mode.maxFreq = 0 \/ e.mode.mode <= 0)
        /\ e.mode.mode * 100 >= consistency * nrLines
        /\ allowed(delims, e.char)}}

\* while(delims.length == 0 && consistency > threshold)
\* The relaxation without the threshold.
RECURSIVE relaxToZero(_, _, _, _)
relaxToZero(modes, nrLines, delims, consistency) ==
    IF consistency > 0
    THEN IF passing(modes, nrLines, delims, consistency) # {}
         THEN passing(modes, nrLines, delims, consistency)
         ELSE relaxToZero(modes, nrLines, delims, consistency - decreaseStep)
    ELSE {}

RECURSIVE relax(_, _, _, _)
relax(modes, nrLines, delims, consistency) ==
    IF consistency > consistencyThreshold
    THEN IF passing(modes, nrLines, delims, consistency) # {}
         THEN passing(modes, nrLines, delims, consistency)
         ELSE relax(modes, nrLines, delims, consistency - decreaseStep)
    ELSE {}

\* The candidates are pushed in increasing character code; the forEach over
\* the list of known delimiters returns from its callback only, so delims[0]
\* is returned whenever there is a candidate.
lowest(found) ==
    IF found = {} THEN Null
    ELSE <<CHOOSE c \in found : \A o \in found : charCodeAt(c) <= charCodeAt(o)>>

guessDelimiterOf(lines, delims) ==
    IF Len(lines) = 0 THEN Null
    ELSE lowest(relax(modesOf(lines), Len(lines), delims, consistencyStart))

guessDelimiter(s, newlineStr, delims) == guessDelimiterOf(linesOf(s, newlineStr, 0), delims)

-----------------------------------------------------------------------------
(* parseSample *)

\* String.prototype.split(separator) for a non-empty separator string.
RECURSIVE splitOn(_, _)
splitOn(s, sep) ==
    LET p == indexOf(s, sep, 0)
    IN  IF p > -1
        THEN <<substring(s, 0, p)>> \o splitOn(substring(s, p + Len(sep), Len(s)), sep)
        ELSE <<s>>

\* split converts its separator to a string: null splits on the text "null".
split(s, sep) ==
    IF sep = Undefined THEN <<s>>
    ELSE IF sep = Null THEN splitOn(s, <<"n", "u", "l", "l">>)
    ELSE splitOn(s, sep)

\* The state of the scan of the quoting case.
ParseStart ==
    [result |-> <<>>, vals |-> <<>>, curVal |-> <<>>, insideQuotes |-> FALSE, escape |-> FALSE]

atNewline(s, newlineStr, i) ==
    \A j \in 0..(Len(newlineStr) - 1) : charAt(s, i + j) = charAt(newlineStr, j)

\* The row is pushed with its last value kept.
closeRowKeep(vals) == vals

\* if(vals[vals.length-1] == "") vals.pop(), on the values of a row once the
\* current value is pushed.
closeRow(vals) ==
    IF vals[Len(vals)] = <<>> THEN SubSeq(vals, 1, Len(vals) - 1) ELSE vals

\* One iteration of the for loop that does not look at insideQuotes.
parseStepOutside(st, s, newlineStr, delimiter, quotechar, i) ==
    LET curchar == charAt(s, i)
        append == [st EXCEPT !.escape = FALSE, !.curVal = Append(st.curVal, curchar)]
    IN  IF st.escape THEN append
        ELSE IF curchar = "\\" THEN [st EXCEPT !.escape = TRUE]
        ELSE IF <<curchar>> = quotechar THEN [st EXCEPT !.insideQuotes = ~st.insideQuotes]
        ELSE IF atNewline(s, newlineStr, i)
             THEN [st EXCEPT !.result = Append(st.result, closeRow(Append(st.vals, st.curVal))),
                             !.vals = <<>>, !.curVal = <<>>]
        ELSE IF <<curchar>> = delimiter
             THEN [st EXCEPT !.vals = Append(st.vals, st.curVal), !.curVal = <<>>]
        ELSE append

\* One iteration of the for loop, at position i.
parseStep(st, s, newlineStr, delimiter, quotechar, i) ==
    LET curchar == charAt(s, i)
        append == [st EXCEPT !.escape = FALSE, !.curVal = Append(st.curVal, curchar)]
    IN  IF st.escape THEN append
        ELSE IF curchar = "\\" THEN [st EXCEPT !.escape = TRUE]
        ELSE IF <<curchar>> = quotechar THEN [st EXCEPT !.insideQuotes = ~st.insideQuotes]
        ELSE IF st.insideQuotes THEN append
        ELSE IF atNewline(s, newlineStr, i)
             THEN [st EXCEPT !.result = Append(st.result, closeRow(Append(st.vals, st.curVal))),
                             !.vals = <<>>, !.curVal = <<>>]
        ELSE IF <<curchar>> = delimiter
             THEN [st EXCEPT !.vals = Append(st.vals, st.curVal), !.curVal = <<>>]
        ELSE append

RECURSIVE parseLoop(_, _, _, _, _, _)
parseLoop(st, s, newlineStr, delimiter, quotechar, i) ==
    IF i < Len(s)
    THEN parseLoop(parseStep(st, s, newlineStr, delimiter, quotechar, i),
                   s, newlineStr, delimiter, quotechar, i + 1)
    ELSE st

parseSample(s, newlineStr, delimiter, quotechar) ==
    IF ~Truthy(quotechar)
    THEN LET lines == split(s, newlineStr)
             kept == IF Len(lines) > 1 THEN SubSeq(lines, 1, Len(lines) - 1) ELSE lines
         IN  [k \in 1..Len(kept) |-> split(kept[k], delimiter)]
    ELSE parseLoop(ParseStart, s, newlineStr, delimiter, quotechar, 0).result

-----------------------------------------------------------------------------
(* getAccumulatedType, getTypes, hasHeader *)

IsDigit(c) == c \in {"1", "2", "3", "4", "5", "6"}

\* The string without its leading and trailing white space.
trim(v) ==
    LET solid == {i \in 1..Len(v) : ~IsSpace(v[i])}
    IN  IF solid = {} THEN <<>> ELSE SubSeq(v, Min(solid), Max(solid))

\* Number(v) of a string, as far as getAccumulatedType reads it: "NaN", or a
\* finite number with ("fraction") or without ("integer") a fractional part.
\* The empty string is 0; a numeral is an optional sign and digits with at
\* most one point.
unsigned(t) == IF t[1] \in {"+", "-"} THEN Tail(t) ELSE t

\* The numeral u, the sign taken off.
numeral(u) ==
    IF \/ \E i \in 1..Len(u) : ~IsDigit(u[i]) /\ u[i] # "."
       \/ Cardinality({i \in 1..Len(u) : u[i] = "."}) > 1
       \/ ~\E i \in 1..Len(u) : IsDigit(u[i])
    THEN "NaN"
    ELSE IF \E p \in 1..Len(u) : u[p] = "." /\ \E i \in (p + 1)..Len(u) : IsDigit(u[i])
         THEN "fraction"
    ELSE "integer"

toNumber(v) == IF trim(v) = <<>> THEN "integer" ELSE numeral(unsigned(trim(v)))

\* The type of curValue alone: curType == "float" is not looked at.
typeOfNumber(number, type) ==
    IF type = "string" THEN "string"
    ELSE IF number = "NaN" THEN "string"
    ELSE IF number = "fraction" THEN "float"
    ELSE "integer"

getTypeOfValue(curValue, type) == typeOfNumber(toNumber(curValue), type)

\* The chain of ifs, for Number(curValue).
accumulatedType(number, type) ==
    IF type = "string" THEN "string"
    ELSE IF number = "NaN" THEN "string"
    ELSE IF type = "float" \/ number = "fraction" THEN "float"
    ELSE "integer"

getAccumulatedType(curValue, type) == accumulatedType(toNumber(curValue), type)

\* tail after rows 2..k of the parsed sample (row 1 is the source's row 0).
RECURSIVE tailTypes(_, _)

\* The fold of a row without the test of its number of fields.
accumulateRowAny(cols, before, width) ==
    [i \in 1..width |->
        IF i <= Len(cols) THEN getAccumulatedType(cols[i], before[i]) ELSE before[i]]

accumulateRow(cols, before, width) ==
    IF Len(cols) # width THEN before
    ELSE [i \in 1..Len(cols) |-> getAccumulatedType(cols[i], before[i])]

tailTypes(parsed, k) ==
    IF k <= 1 THEN [i \in 1..Len(parsed[1]) |-> "integer"]
    ELSE accumulateRow(parsed[k], tailTypes(parsed, k - 1), Len(parsed[1]))

\* The profiles without the fold of the first values into all.
typesOfTail(firstValues, tail) ==
    [first |-> [i \in 1..Len(firstValues) |-> getAccumulatedType(firstValues[i], "integer")],
     tail |-> tail,
     all |-> tail]

typesFor(firstValues, tail) ==
    [first |-> [i \in 1..Len(firstValues) |-> getAccumulatedType(firstValues[i], "integer")],
     tail |-> tail,
     all |-> [i \in 1..Len(firstValues) |-> getAccumulatedType(firstValues[i], tail[i])]]

getTypes(parsed) ==
    IF Len(parsed) = 0 THEN [first |-> <<>>, tail |-> <<>>, all |-> <<>>]
    ELSE typesFor(parsed[1], tailTypes(parsed, Len(parsed)))

\* lengthsTail[i]: the lengths of column i in the rows after the first that
\* have as many fields as the first.
lengthsTail(parsed, i) ==
    LET rows == SelectSeq(Tail(parsed), LAMBDA cols : Len(cols) = Len(parsed[1]))
    IN  [k \in 1..Len(rows) |-> Len(rows[k][i])]

\* The vote of column i from the lengths alone.
lengthVote(length, l, n, sum) ==
    IF /\ n > 0
       /\ Abs(n * length - sum) * n * n
            > 2 * SumSeq([k \in 1..n |-> (sum - n * l[k]) * (sum - n * l[k])])
    THEN 1
    ELSE -1

\* The vote of a column from the length of its first value and the lengths l
\* of the others.  With avg = sum / n and sd = diffSqSum / n,
\* Math.abs(col.length - avg) > 2 * sd is compared after multiplying both
\* sides by n^3; with no length (n = 0) both are NaN and the vote is -1.
voteOfLength(length, l) == lengthVote(length, l, Len(l), SumSeq(l))

\* The vote of column i from the lengths alone.
voteOfLengths(parsed, types, i) == voteOfLength(Len(parsed[1][i]), lengthsTail(parsed, i))

\* The vote of column i with the weight 1 for a header of another type.
voteOfOne(parsed, types, i) ==
    IF types.first[i] # types.tail[i] /\ types.first[i] = "string" THEN 1
    ELSE voteOfLength(Len(parsed[1][i]), lengthsTail(parsed, i))

\* The vote of column i.
voteOf(parsed, types, i) ==
    IF types.first[i] # types.tail[i] /\ types.first[i] = "string" THEN 2
    ELSE voteOfLength(Len(parsed[1][i]), lengthsTail(parsed, i))

headerVote(parsed, types) ==
    IF Len(parsed) = 0 THEN 0
    ELSE SumSeq([i \in 1..Len(parsed[1]) |-> voteOf(parsed, types, i)])

\* return {types: ..., hasHeader: ...} for the vote.
verdict(types, vote) ==
    [types |-> IF vote > 0 THEN types.tail ELSE types.all,
     hasHeader |-> IF vote > 0 THEN True ELSE False]

hasHeaderOf(parsed, types) == verdict(types, headerVote(parsed, types))

hasHeader(parsed) == hasHeaderOf(parsed, getTypes(parsed))

-----------------------------------------------------------------------------
(* CSVSniffer.prototype.sniff *)

\* labels when there are none: null, as a row.
NullRow == <<Null>>

NoResult ==
    [newlineStr |-> Undefined, delimiter |-> Undefined, quoteChar |-> Undefined,
     hasHeader |-> Undefined, warnings |-> <<>>, types |-> <<>>,
     labels |-> NullRow, records |-> <<>>]

NoGuess == [delim |-> Undefined, quote |-> Undefined]

NoOptions ==
    [newlineStr |-> Undefined, delimiter |-> Undefined, quoteChar |-> Undefined,
     hasHeader |-> Undefined]

\* The warning "Difference found in delimiters. User proposed <proposed> but
\* we believe it should be <believed>": the two values its text names.
differenceWarning(proposed, believed) == [proposed |-> proposed, believed |-> believed]

\* if(quoteAndDelim.delim && (quoteAndDelim.quote == "'" || quoteAndDelim.quote == '"'))
accepts(qd) == Truthy(qd.delim) /\ (qd.quote = <<"'">> \/ qd.quote = <<"\"">>)

\* result.quoteChar: the option when it is given, and else the guessed quote
\* when the guess is accepted, null when it is not.
quoteCharOf(opts, qd) ==
    IF opts.quoteChar # Undefined THEN opts.quoteChar
    ELSE IF accepts(qd) THEN qd.quote
    ELSE Null

\* result.delimiter before the frequency guesser: the option, replaced by the
\* guessed delimiter when the option is undefined and the guess is accepted.
proposedDelimiter(opts, qd) ==
    IF opts.quoteChar = Undefined /\ accepts(qd) /\ opts.delimiter = Undefined
    THEN qd.delim
    ELSE opts.delimiter

\* result.warnings
warningsOf(opts, qd) ==
    IF /\ opts.quoteChar = Undefined
       /\ accepts(qd)
       /\ opts.delimiter # Undefined
       /\ opts.delimiter # qd.delim
    THEN <<differenceWarning(opts.delimiter, qd.delim)>>
    ELSE <<>>

\* if(!result.delimiter) result.delimiter = guessDelimiter(...)
delimiterOf(smp, newlineStr, delims, proposed) ==
    IF ~Truthy(proposed) THEN guessDelimiter(smp, newlineStr, delims) ELSE proposed

\* if(options.hasHeader == undefined): null equals undefined under ==
detectsHeader(opts) == opts.hasHeader = Undefined \/ opts.hasHeader = Null

\* result.hasHeader and result.types for a given options.hasHeader.
suppliedHeader(header, types) ==
    [types |-> IF Truthy(header) THEN types.tail ELSE types.all,
     hasHeader |-> header]

\* The two branches of if(options.hasHeader == undefined).
hasHeaderData(opts, parsed) ==
    IF detectsHeader(opts) THEN hasHeader(parsed)
    ELSE suppliedHeader(opts.hasHeader, getTypes(parsed))

\* labels without the test of hasHeader.
labelsOfFirstRow(header, parsed) ==
    IF Len(parsed) > 0 THEN parsed[1] ELSE NullRow

\* records without the shift.
recordsOfTable(header, parsed) == parsed

\* result.labels
labelsOf(header, parsed) ==
    IF Truthy(header) /\ Len(parsed) > 0 THEN parsed[1] ELSE NullRow

\* result.records: parsedSample itself, shifted when there is a header
recordsOf(header, parsed) ==
    IF Truthy(header) /\ Len(parsed) > 0 THEN Tail(parsed) ELSE parsed

\* var quoteAndDelim: assigned in the branch options.quoteChar === undefined
\* only; g is the value of the variable quote.
quoteAndDelimOf(smp, opts, newlineStr, delims, g) ==
    IF opts.quoteChar = Undefined
    THEN guessQuoteAndDelimiter(smp, newlineStr, delims, g)
    ELSE NoGuess

\* The variable quote after the call: guessQuoteAndDelimiter assigns it when
\* it has matches, and then returns it as the guessed quote.
quoteOf(opts, qd, g) ==
    IF opts.quoteChar = Undefined /\ qd.quote # Null THEN qd.quote ELSE g

\* The object returned.
resultOf(newlineStr, delimiter, quoteChar, warnings, data, parsed) ==
    [newlineStr |-> newlineStr,
     delimiter |-> delimiter,
     quoteChar |-> quoteChar,
     hasHeader |-> data.hasHeader,
     warnings |-> warnings,
     types |-> data.types,
     labels |-> labelsOf(data.hasHeader, parsed),
     records |-> recordsOf(data.hasHeader, parsed)]

\* result.newlineStr = options.newlineStr || getNewlineStr(sample): the values
\* it can take.
resolveNewlineStr(smp, opts) ==
    IF Truthy(opts.newlineStr) THEN {opts.newlineStr} ELSE getNewlineStr(smp)

\* A call sniffer.sniff(smp, opts) of the constructed sniffer.  It throws
\* when no newline string is resolved and returns its result otherwise;
\* getNewlineStr leaves -1 in the variable newlinePos.
Sniff(smp, opts) ==
    /\ pc = "idle"
    /\ \E newlineStr \in resolveNewlineStr(smp, opts) :
          IF ~Truthy(newlineStr)
          THEN /\ pc' = "thrown"
               /\ UNCHANGED <<result, quoteAndDelim, parsedSample, quote>>
          ELSE \E qd \in {quoteAndDelimOf(smp, opts, newlineStr, delimiters, quote)} :
               \E delimiter \in {delimiterOf(smp, newlineStr, delimiters,
                                              proposedDelimiter(opts, qd))} :
               \E parsed \in {parseSample(smp, newlineStr, delimiter,
                                           quoteCharOf(opts, qd))} :
               \E data \in {hasHeaderData(opts, parsed)} :
                  /\ pc' = "returned"
                  /\ result' = resultOf(newlineStr, delimiter, quoteCharOf(opts, qd),
                                        warningsOf(opts, qd), data, parsed)
                  /\ quoteAndDelim' = qd
                  /\ parsedSample' = parsed
                  /\ quote' = quoteOf(opts, qd, quote)
    /\ sample' = smp
    /\ options' = opts
    /\ newlinePos' = IF Truthy(opts.newlineStr) THEN newlinePos ELSE {-1}
    /\ UNCHANGED <<delimiters, curType, column>>

-----------------------------------------------------------------------------
(* The inputs of the model *)

\* The strings over the characters of A of length n at most.
RECURSIVE StringsUpTo(_, _)
StringsUpTo(A, n) ==
    IF n = 0 THEN {<<>>}
    ELSE LET shorter == StringsUpTo(A, n - 1)
         IN  shorter \cup {Append(s, c) : s \in shorter, c \in A}

\* The state after new CSVSniffer(delims), before any call.
Constructed(delims) ==
    /\ delimiters = delims
    /\ pc = "idle"
    /\ sample = <<>>
    /\ options = NoOptions
    /\ result = NoResult
    /\ quoteAndDelim = NoGuess
    /\ parsedSample = <<>>
    /\ quote = Undefined
    /\ newlinePos = {}
    /\ curType = "integer"
    /\ column = <<>>

MaxLen == 5

Alphabet == {"\n", ",", "'", "a", "1"}

\* The samples of the scenarios of the specification.
Scenarios ==
    {<<"a", ",", "b", ",", "c", "\n", "1", ",", "2", ",", "3", "\n",
       "4", ",", "5", ",", "6", "\n">>}

Samples == StringsUpTo(Alphabet, MaxLen) \cup Scenarios

\* The calls that leave the delimiter to the sniffer.
AutoOptions ==
    {[NoOptions EXCEPT !.quoteChar = q] : q \in {Undefined, <<"'">>}}

Sniffers == {Undefined, <<",">>}

Init == \E delims \in Sniffers : Constructed(delims)

Next ==
    /\ pc = "idle"
    /\ \E smp \in Samples, opts \in AutoOptions : Sniff(smp, opts)

Spec == Init /\ [][Next]_vars

-----------------------------------------------------------------------------
(* The allowed delimiters *)

\* The call has returned from a sniffer constructed with a list of delimiters.
Restricted == pc = "returned" /\ delimiters # Undefined

\* C1: for a sniffer constructed with a set of allowed delimiters, a call
\* that omits the delimiter option returns a delimiter that is null or a
\* member of the set, from the pattern guesser and from the frequency guesser.
AllowedDelimiter ==
    (Restricted /\ options.delimiter = Undefined) =>
        \/ result.delimiter = Null
        \/ \E k \in 1..Len(delimiters) : result.delimiter = <<delimiters[k]>>

\* An allowed delimiter is returned for a sample where the unrestricted
\* guessers propose a character outside the set.
AllowedDelimiterReached ==
    /\ Restricted
    /\ options.delimiter = Undefined
    /\ options.quoteChar = Undefined
    /\ \E k \in 1..Len(delimiters) : result.delimiter = <<delimiters[k]>>
    /\ delimiterOf(sample, result.newlineStr, Undefined,
                   proposedDelimiter(options,
                       guessQuoteAndDelimiter(sample, result.newlineStr, Undefined, Undefined)))
          \notin {Null, result.delimiter}

-----------------------------------------------------------------------------
(* The newline string *)

MaxNewlineLen == 12

\* Samples long enough for the final round of getNewlineStr, which needs more
\* than threshold lines for two candidates, and short samples with content.
NewlineSamples ==
    StringsUpTo({"\r", "\n"}, MaxNewlineLen) \cup StringsUpTo({"\r", "\n", "a"}, MaxLen)

InitNewline == Constructed(Undefined)

NextNewline ==
    /\ pc = "idle"
    /\ \E smp \in NewlineSamples : Sniff(smp, NoOptions)

SpecNewline == InitNewline /\ [][NextNewline]_vars

HasTerminator(s) == \E i \in 1..Len(s) : s[i] \in {"\r", "\n"}

\* C2: with the newlineStr option omitted, the call throws and returns no
\* result exactly when the sample contains neither \r nor \n; otherwise
\* getNewlineStr returns one of "\r\n", "\n\r", "\n", "\r" and never null,
\* also when a score of the final round is a division by a zero mean.
NoNewlineThrows ==
    (pc # "idle" /\ options.newlineStr = Undefined) =>
        /\ pc = "thrown" <=> ~HasTerminator(sample)
        /\ pc = "thrown" => result = NoResult
        /\ HasTerminator(sample) =>
              /\ getNewlineStr(sample) \subseteq {CRLF, LFCR, LF, CR}
              /\ result.newlineStr \in getNewlineStr(sample)

\* The call returned for a sample that reaches the final round with a
\* candidate whose lines are all empty.
NoNewlineThrowsReached ==
    /\ pc = "returned"
    /\ options.newlineStr = Undefined
    /\ Len(finalRemainers(nrLinesLeft(sample))) > 1
    /\ \E c \in 1..Len(candidates) :
          /\ nrLinesLeft(sample)[c] > threshold
          /\ scoreOf(lineLengths(sample, candidates[c], 0)).nan

-----------------------------------------------------------------------------
(* The options of the caller *)

MaxOptionLen == 4

OptionSamples == StringsUpTo({"\n", ",", "'", "a"}, MaxOptionLen)

\* The options objects: each option is omitted (undefined) or supplied.
AllOptions ==
    [newlineStr : {Undefined, LF},
     delimiter : {Undefined, Null, <<>>, <<",">>},
     quoteChar : {Undefined, Null, <<"'">>},
     hasHeader : {Undefined, True, False}]

InitOptions == Constructed(Undefined)

NextOptions ==
    /\ pc = "idle"
    /\ \E smp \in OptionSamples, opts \in AllOptions : Sniff(smp, opts)

SpecOptions == InitOptions /\ [][NextOptions]_vars

\* The call has returned and all four options were supplied.
AllSupplied ==
    /\ pc = "returned"
    /\ options.newlineStr # Undefined
    /\ options.delimiter # Undefined
    /\ options.quoteChar # Undefined
    /\ options.hasHeader # Undefined

\* C3: with all four options supplied, the result's newlineStr, delimiter,
\* quoteChar and hasHeader are the supplied values, for every sample and every
\* supplied value, a delimiter of null or "" and a hasHeader of false included.
SuppliedReproduced ==
    AllSupplied =>
        /\ result.newlineStr = options.newlineStr
        /\ result.delimiter = options.delimiter
        /\ result.quoteChar = options.quoteChar
        /\ result.hasHeader = options.hasHeader

\* Row 0 of a table; undefined when the table has no row.
Row0(parsed) == IF Len(parsed) > 0 THEN parsed[1] ELSE <<Undefined>>

\* C4 as stated: labels is row 0 of the parsed table when result.hasHeader is
\* true and null otherwise, and records is the parsed table without row 0 when
\* result.hasHeader is true and the whole table otherwise, for a detected and
\* for a supplied hasHeader, also when the parsed table is empty.
LabelsAreRow0 ==
    pc = "returned" =>
        /\ result.labels =
              IF result.hasHeader = True THEN Row0(parsedSample) ELSE NullRow
        /\ result.records =
              SubSeq(parsedSample, IF result.hasHeader = True THEN 2 ELSE 1, Len(parsedSample))

\* C4, amended: labels is row 0 of the parsed table when result.hasHeader is
\* true and the table has a row, and null otherwise; records is the parsed
\* table without row 0 when result.hasHeader is true and the whole table
\* otherwise.
LabelsAreRow0IfAny ==
    pc = "returned" =>
        /\ result.labels =
              IF result.hasHeader = True /\ Len(parsedSample) > 0
              THEN parsedSample[1] ELSE NullRow
        /\ result.records =
              SubSeq(parsedSample, IF result.hasHeader = True THEN 2 ELSE 1, Len(parsedSample))

\* A detected header: its row is the labels and the rows after it the records.
LabelsAreRow0Reached ==
    /\ pc = "returned"
    /\ options.hasHeader = Undefined
    /\ result.hasHeader = True
    /\ Len(parsedSample) > 1
    /\ result.labels = parsedSample[1]
    /\ result.records = Tail(parsedSample)

\* The state of the scan of parseSample before position i of s: inside quotes,
\* and after an escaping backslash.
RECURSIVE ScanBefore(_, _, _)
ScanBefore(s, quotechar, i) ==
    IF i = 0 THEN [inside |-> FALSE, escape |-> FALSE]
    ELSE LET before == ScanBefore(s, quotechar, i - 1)
             c == charAt(s, i - 1)
         IN  IF before.escape THEN [before EXCEPT !.escape = FALSE]
             ELSE IF c = "\\" THEN [before EXCEPT !.escape = TRUE]
             ELSE IF <<c>> = quotechar THEN [before EXCEPT !.inside = ~before.inside]
             ELSE before

\* The character at position i is read outside quotes and is not escaped.
Plain(s, quotechar, i) ==
    /\ ~ScanBefore(s, quotechar, i).inside
    /\ ~ScanBefore(s, quotechar, i).escape
    /\ charAt(s, i) # "\\"
    /\ <<charAt(s, i)>> # quotechar

\* The number of rows of s that a terminator follows: the occurrences of the
\* newline string, outside quotes and unescaped when there is a quote
\* character.
TerminatedRows(s, newlineStr, quotechar) ==
    IF Truthy(quotechar)
    THEN Cardinality({i \in 0..(Len(s) - 1) :
            Plain(s, quotechar, i) /\ atNewline(s, newlineStr, i)})
    ELSE Len(lineLengths(s, newlineStr, 0))

GuesserDisagrees ==
    /\ pc = "returned"
    /\ options.delimiter # Undefined
    /\ options.quoteChar = Undefined
    /\ accepts(quoteAndDelim)
    /\ quoteAndDelim.delim # options.delimiter

\* C9: when the caller supplies a delimiter and the pattern guesser infers a
\* different one, the call returns, result.delimiter is the caller's value and
\* result.warnings holds a warning that names both delimiters, for every value
\* of the other options and every supplied delimiter.
CallerDelimiterHonored ==
    GuesserDisagrees =>
        /\ result.delimiter = options.delimiter
        /\ \E k \in 1..Len(result.warnings) :
              result.warnings[k] = differenceWarning(options.delimiter, quoteAndDelim.delim)

-----------------------------------------------------------------------------
(* The quote character and the header *)

\* C8: with the quoteChar option omitted, result.quoteChar is the quote voted
\* by the pattern guesser whenever that quote is ' or ", whatever delimiter (a
\* character or none) the guesser returned with it, and is null only when the
\* guesser found no such quote; a sample that only the quote-only pattern
\* matches reports its quote character.
GuessedQuoteReported ==
    (pc = "returned" /\ options.quoteChar = Undefined) =>
        result.quoteChar =
            IF quoteAndDelim.quote \in {<<"'">>, <<"\"">>} THEN quoteAndDelim.quote ELSE Null

\* Number(v) is a finite number.
Finite(v) == toNumber(v) # "NaN"

\* The rows of the parsed sample have as many fields as each other, no cell of
\* row 0 is a finite number and every cell of the other rows is one.
HeaderOverNumbers ==
    /\ \A k \in 1..Len(parsedSample) :
          /\ Len(parsedSample[k]) = Len(parsedSample[1])
          /\ \A i \in 1..Len(parsedSample[k]) : Finite(parsedSample[k][i]) <=> k > 1

\* The type of column i of the first k rows, folded from "integer".
RECURSIVE FoldColumn(_, _, _)
FoldColumn(rows, i, k) ==
    IF k = 0 THEN "integer"
    ELSE getAccumulatedType(rows[k][i], FoldColumn(rows, i, k - 1))

\* The result for a header row over rows of numbers.
HeaderFound ==
    /\ result.hasHeader = True
    /\ result.labels = parsedSample[1]
    /\ result.records = Tail(parsedSample)
    /\ result.types =
          [i \in 1..Len(parsedSample[1]) |->
              FoldColumn(Tail(parsedSample), i, Len(parsedSample) - 1)]

\* The result of the scenario "a,b,c\n1,2,3\n4,5,6\n".
ScenarioResult ==
    [newlineStr |-> LF,
     delimiter |-> <<",">>,
     quoteChar |-> Null,
     hasHeader |-> True,
     warnings |-> <<>>,
     types |-> <<"integer", "integer", "integer">>,
     labels |-> <<<<"a">>, <<"b">>, <<"c">>>>,
     records |-> <<<<<<"1">>, <<"2">>, <<"3">>>>, <<<<"4">>, <<"5">>, <<"6">>>>>>]

WithoutOptions == pc = "returned" /\ options = NoOptions

\* C10 as stated: for a call with no options on a sample whose rows all have
\* the same field count, whose row-0 cells are not finite numbers and whose
\* other cells all are, hasHeader is true, labels is row 0, records is the
\* other rows and types is the per-column types of the other rows only; the
\* scenario sample gives the scenario's result.
HeaderRowDetected ==
    /\ (WithoutOptions /\ HeaderOverNumbers) => HeaderFound
    /\ (WithoutOptions /\ sample \in Scenarios) => result = ScenarioResult

\* C10, amended: the same, for a sample whose row 0 has at least one cell.
HeaderRowWithCellsDetected ==
    /\ (/\ WithoutOptions
        /\ HeaderOverNumbers
        /\ Len(parsedSample) > 0
        /\ Len(parsedSample[1]) > 0) => HeaderFound
    /\ (WithoutOptions /\ sample \in Scenarios) => result = ScenarioResult

\* The scenario sample is sniffed.
HeaderRowDetectedReached ==
    /\ WithoutOptions
    /\ sample \in Scenarios
    /\ HeaderOverNumbers
    /\ Len(result.records) = 2

-----------------------------------------------------------------------------
(* parseSample with a quote character *)

MaxParseLen == 5

ParseSamples == StringsUpTo({"\r", "\n", ",", "'", "\\", "a"}, MaxParseLen)

\* The arguments of parseSample, kept as the sample and the options.
InitParse ==
    \E smp \in ParseSamples, newlineStr \in {LF, CRLF} :
        /\ delimiters = Undefined
        /\ pc = "idle"
        /\ sample = smp
        /\ options = [newlineStr |-> newlineStr, delimiter |-> <<",">>,
                      quoteChar |-> <<"'">>, hasHeader |-> Undefined]
        /\ result = NoResult
        /\ quoteAndDelim = NoGuess
        /\ parsedSample = <<>>
        /\ quote = Undefined
        /\ newlinePos = {}
        /\ curType = "integer"
        /\ column = <<>>

ParseSample ==
    /\ pc = "idle"
    /\ pc' = "parsed"
    /\ parsedSample' =
          parseSample(sample, options.newlineStr, options.delimiter, options.quoteChar)
    /\ UNCHANGED <<delimiters, sample, options, result, quoteAndDelim, quote,
                   newlinePos, curType, column>>

SpecParse == InitParse /\ [][ParseSample]_vars

\* The positions of the terminators of the rows, in increasing order.
Terminators(s, newlineStr, quotechar) ==
    SelectSeq([i \in 1..Len(s) |-> i - 1],
              LAMBDA i : Plain(s, quotechar, i) /\ atNewline(s, newlineStr, i))

\* The first position of row k: the scan resumes one character after the
\* start of the terminator of the row before.
RowStart(terminators, k) == IF k = 1 THEN 0 ELSE terminators[k - 1] + 1

\* The positions of the delimiters of row k that are neither inside quotes nor
\* escaped.
RowDelimiters(s, delimiter, quotechar, terminators, k) ==
    {i \in RowStart(terminators, k)..(terminators[k] - 1) :
        Plain(s, quotechar, i) /\ <<charAt(s, i)>> = delimiter}

\* The character at position i is part of the value of a field: it is escaped,
\* or it is neither a backslash nor the quote character.
InValue(s, quotechar, i) ==
    \/ ScanBefore(s, quotechar, i).escape
    \/ charAt(s, i) # "\\" /\ <<charAt(s, i)>> # quotechar

\* The last field of row k has no character.
LastFieldEmpty(s, delimiter, quotechar, terminators, k) ==
    LET from == Max({RowStart(terminators, k) - 1}
                    \cup RowDelimiters(s, delimiter, quotechar, terminators, k)) + 1
    IN  \A i \in from..(terminators[k] - 1) :
            \/ ~InValue(s, quotechar, i)
            \/ Plain(s, quotechar, i) /\ <<charAt(s, i)>> = delimiter

\* C6 as stated: with a quote character set, every emitted row has 1 + (the
\* number of its delimiters that are neither inside quotes nor escaped)
\* fields, rows whose last field is empty and empty rows included.
FieldsAreDelimitersPlusOne ==
    pc = "parsed" =>
        LET terminators == Terminators(sample, options.newlineStr, options.quoteChar)
        IN  /\ Len(parsedSample) = Len(terminators)
            /\ \A k \in 1..Len(terminators) :
                  Len(parsedSample[k]) = 1 + Cardinality(RowDelimiters(
                      sample, options.delimiter, options.quoteChar, terminators, k))

\* C6, amended: every emitted row has 1 + (the number of its delimiters that
\* are neither inside quotes nor escaped) fields, less one when its last
\* field is empty.
FieldsDropEmptyLast ==
    pc = "parsed" =>
        LET terminators == Terminators(sample, options.newlineStr, options.quoteChar)
        IN  /\ Len(parsedSample) = Len(terminators)
            /\ \A k \in 1..Len(terminators) :
                  Len(parsedSample[k]) = 1 + Cardinality(RowDelimiters(
                      sample, options.delimiter, options.quoteChar, terminators, k))
                    - (IF LastFieldEmpty(sample, options.delimiter, options.quoteChar,
                                         terminators, k) THEN 1 ELSE 0)

\* A row is parsed that holds an escaped delimiter and ends with a delimiter
\* that is not escaped: its empty last field is dropped.
FieldsDropEmptyLastReached ==
    /\ pc = "parsed"
    /\ Len(parsedSample) > 0
    /\ LET terminators == Terminators(sample, options.newlineStr, options.quoteChar)
       IN  /\ RowDelimiters(sample, options.delimiter, options.quoteChar, terminators, 1) # {}
           /\ LastFieldEmpty(sample, options.delimiter, options.quoteChar, terminators, 1)
           /\ \E i \in 0..(terminators[1] - 1) :
                 /\ charAt(sample, i) = ","
                 /\ ScanBefore(sample, options.quoteChar, i).escape

-----------------------------------------------------------------------------
(* The accumulated type of a column *)

MaxColumn == 3

\* Values of cells: integers, fractions, blanks and text.
TypeValues ==
    {<<"1">>, <<"-", "1">>, <<"1", ".", "1">>, <<"1", ".">>, <<".", "1">>, <<>>,
     <<" ">>, <<"a">>, <<"1", "a">>, <<".", ".">>, <<"-">>}

Types == {"integer", "float", "string"}

\* A column before any value is folded into it, for each current type that
\* the caller of getAccumulatedType can pass.
InitType ==
    \E t \in Types :
        /\ delimiters = Undefined
        /\ pc = "idle"
        /\ sample = <<>>
        /\ options = NoOptions
        /\ result = NoResult
        /\ quoteAndDelim = NoGuess
        /\ parsedSample = <<>>
        /\ quote = Undefined
        /\ newlinePos = {}
        /\ curType = t
        /\ column = <<>>

\* tail[colIndex] = getAccumulatedType(col, tail[colIndex]), and the method
\* CSVSniffer.prototype.getAccumulatedType called on the type it returned.
Accumulate(curValue) ==
    /\ Len(column) < MaxColumn
    /\ column' = Append(column, curValue)
    /\ curType' = getAccumulatedType(curValue, curType)
    /\ UNCHANGED <<delimiters, pc, sample, options, result, quoteAndDelim,
                   parsedSample, quote, newlinePos>>

NextType == \E curValue \in TypeValues : Accumulate(curValue)

SpecType == InitType /\ [][NextType]_vars

TypeRank(t) == CASE t = "integer" -> 0 [] t = "float" -> 1 [] t = "string" -> 2

\* C7: getAccumulatedType is monotone on integer < float < string: for every
\* current type and value the returned type is not below the current type, so
\* the accumulated type of a column only moves integer -> float -> string.
TypeOnlyWeakens == [][TypeRank(curType') >= TypeRank(curType)]_vars

\* An integer is folded into a column of type float, which stays float.
TypeOnlyWeakensReached ==
    /\ Len(column) > 1
    /\ curType = "float"
    /\ toNumber(column[Len(column)]) = "integer"

-----------------------------------------------------------------------------
(* No delimiter found *)

MaxLines == 3
MaxManyLines == 11

\* The samples of n lines at most, each line one of contents and ended by "\n".
RECURSIVE LinesUpTo(_, _)
LinesUpTo(contents, n) ==
    IF n = 0 THEN {<<>>}
    ELSE LET shorter == LinesUpTo(contents, n - 1)
         IN  shorter \cup {s \o c \o LF : s \in shorter, c \in contents}

\* Samples of a few lines of one or two fields, some of which hold a fraction
\* or the text null, samples of many lines that are empty or hold one comma,
\* and the single column of the scenario of the specification.
LineSamples ==
    LinesUpTo({<<>>, <<"1">>, <<"a">>, <<"1", "1">>, <<"a", ",", "1">>,
               <<"1", ",", "1", ".", "1">>,
               <<"n", "u", "l", "l">>, <<"a", "n", "u", "l", "l">>},
              MaxLines)
    \cup LinesUpTo({<<>>, <<",">>}, MaxManyLines)
    \cup {<<"1", "\n", "2", "\n", "3", "\n", "4", "\n", "5", "\n", "6", "\n">>}

NextLines ==
    /\ pc = "idle"
    /\ \E smp \in LineSamples : Sniff(smp, NoOptions)

SpecLines == InitNewline /\ [][NextLines]_vars

\* The table of one field per line, the whole line.
WholeLines(lines) == [k \in 1..Len(lines) |-> <<lines[k]>>]

\* Neither the pattern guesser nor the frequency guesser finds a delimiter in
\* the sample of the call.
NoDelimiterFound ==
    \A newlineStr \in getNewlineStr(sample) :
        /\ ~accepts(guessQuoteAndDelimiter(sample, newlineStr, delimiters, Undefined))
        /\ guessDelimiter(sample, newlineStr, delimiters) = Null

\* C11: when neither guesser finds a delimiter the call does not fail,
\* result.delimiter is null and every parsed row is exactly one field, equal
\* to the whole line, whatever the line holds.
NullDelimiterWholeLines ==
    (pc # "idle" /\ HasTerminator(sample) /\ NoDelimiterFound) =>
        /\ pc = "returned"
        /\ result.delimiter = Null
        /\ parsedSample = WholeLines(linesOf(sample, result.newlineStr, 0))

-----------------------------------------------------------------------------
(* The single terminator of a sample *)

\* The candidate T occurs in s at the 0-based position j.
OccursAt(s, T, j) ==
    /\ j >= 0
    /\ j + Len(T) <= Len(s)
    /\ substring(s, j, j + Len(T)) = T

\* Every \r and \n of s belongs to an occurrence of T.
Accounts(s, T) ==
    \A i \in 0..(Len(s) - 1) :
        charAt(s, i) \in {"\r", "\n"} =>
            \E j \in (i - Len(T) + 1)..i : OccursAt(s, T, j)

\* T is the one candidate that accounts for the line breaks of s, and it
\* occurs twice at least.
SingleTerminator(s, T) ==
    /\ Accounts(s, T)
    /\ Len(lineLengths(s, T, 0)) >= 2
    /\ \A k \in 1..Len(candidates) : candidates[k] # T => ~Accounts(s, candidates[k])

\* C12: for a sample whose line-break characters all belong to occurrences of
\* a single candidate T that occurs at least twice, getNewlineStr returns
\* exactly T, also for "\r\n" with empty lines and more than 5 lines.
SingleTerminatorReturned ==
    (pc # "idle" /\ options.newlineStr = Undefined) =>
        \A k \in 1..Len(candidates) :
            SingleTerminator(sample, candidates[k]) =>
                /\ getNewlineStr(sample) = {candidates[k]}
                /\ pc = "returned"
                /\ result.newlineStr = candidates[k]

-----------------------------------------------------------------------------
(* The preference among several candidates *)

\* The list of known delimiters.
knownDelimiters == <<",", "\t", ";", " ", ":", "|">>

\* delims of guessDelimiter when its while loop ends: the characters that
\* survive the consistency filter.
survivors(lines, delims) == relax(modesOf(lines), Len(lines), delims, consistencyStart)

\* The first known delimiter among the candidates, and else the candidate of
\* the lowest character code.
Preferred(found) ==
    IF \E k \in 1..Len(knownDelimiters) : knownDelimiters[k] \in found
    THEN <<knownDelimiters[Min({k \in 1..Len(knownDelimiters) : knownDelimiters[k] \in found})]>>
    ELSE lowest(found)

\* The call returned a delimiter of the frequency guesser.
FrequencyGuessed == pc = "returned" /\ ~Truthy(proposedDelimiter(options, quoteAndDelim))

\* C13: when more than one candidate survives the consistency filter,
\* guessDelimiter returns the first entry of the list of known delimiters
\* that is a candidate, and the first candidate in scan order only when none
\* of the six is one.
KnownDelimiterPreferred ==
    FrequencyGuessed =>
        \A found \in {survivors(linesOf(sample, result.newlineStr, 0), delimiters)} :
            Cardinality(found) > 1 => result.delimiter = Preferred(found)

-----------------------------------------------------------------------------
(* The characters of the rows of the quoting case *)

\* The characters of the fields of a row, one field after the other.
RECURSIVE Flatten(_)
Flatten(row) == IF row = <<>> THEN <<>> ELSE Head(row) \o Flatten(Tail(row))

\* The characters of s from position from up to position to that are part of
\* the value of a field: not a delimiter that closes a field, and not a quote
\* character or backslash that is interpreted.
ValueChars(s, delimiter, quotechar, from, to) ==
    LET positions == SelectSeq([j \in 1..(to - from) |-> from + j - 1],
                               LAMBDA i : /\ InValue(s, quotechar, i)
                                          /\ ~(Plain(s, quotechar, i) /\ <<charAt(s, i)>> = delimiter))
    IN  [j \in 1..Len(positions) |-> charAt(s, positions[j])]

\* The first position after the whole terminator of the row before row k.
AfterTerminator(terminators, newlineStr, k) ==
    IF k = 1 THEN 0 ELSE terminators[k - 1] + Len(newlineStr)

\* C14: in the quoting case, when a newline match closes a row the scan
\* resumes after the whole terminator: the fields of the following row hold
\* no character of the terminator, for newline strings of one and of two
\* characters.
RowsResumeAfterTerminator ==
    pc = "parsed" =>
        LET terminators == Terminators(sample, options.newlineStr, options.quoteChar)
        IN  \A k \in 1..Len(parsedSample) :
                Flatten(parsedSample[k]) =
                    ValueChars(sample, options.delimiter, options.quoteChar,
                               AfterTerminator(terminators, options.newlineStr, k),
                               terminators[k])

-----------------------------------------------------------------------------
(* The anchors of the patterns *)

\* The positions where a line of s starts.
LineStarts(s, newlineStr) ==
    {0} \cup {j + Len(newlineStr) : j \in {i \in 0..(Len(s) - 1) : OccursAt(s, newlineStr, i)}}

\* The positions where a line of s ends.
LineEnds(s, newlineStr) ==
    {Len(s)} \cup {i \in 0..(Len(s) - 1) : OccursAt(s, newlineStr, i)}

\* A quoted block starts the line at p and a delimiter follows it.
BlockStartsLine(s, newlineStr, p) ==
    /\ p < Len(s)
    /\ IsQuote(charAt(s, p))
    /\ \E e \in closers(s, p, newlineStr) : tailDelimiter(s, e, newlineStr) = e + 1

\* The delimiter at d precedes a quoted block from q on that ends a line.
BlockEndsLine(s, newlineStr, d, q) ==
    /\ q = d + 1
    /\ q < Len(s)
    /\ delimiterClass(charAt(s, d), newlineStr)
    /\ IsQuote(charAt(s, q))
    /\ \E e \in closers(s, q, newlineStr) : e + 1 \in LineEnds(s, newlineStr)

\* The pattern guesser ran in the call that returned.
PatternGuessed == pc = "returned" /\ options.quoteChar = Undefined

\* C15: patterns 2 to 4 are anchored per line.  When pattern 1 has no match,
\* a quoted block that starts any line and is followed by a delimiter is
\* matched by pattern 2; when patterns 1 and 2 have none, a quoted block that
\* ends any line and is preceded by a delimiter is matched by pattern 3; its
\* quote is voted.
PatternsAnchoredPerLine ==
    (PatternGuessed /\ execBothSides(sample, result.newlineStr, 0) = <<>>) =>
        /\ \A p \in LineStarts(sample, result.newlineStr) :
              BlockStartsLine(sample, result.newlineStr, p) =>
                  \E k \in 1..Len(matchesOf(sample, result.newlineStr)) :
                      /\ matchesOf(sample, result.newlineStr)[k].quote = charAt(sample, p)
                      /\ matchesOf(sample, result.newlineStr)[k].delim # ""
        /\ (\A p \in LineStarts(sample, result.newlineStr) :
                ~BlockStartsLine(sample, result.newlineStr, p)) =>
              \A d \in 0..(Len(sample) - 1) :
                  BlockEndsLine(sample, result.newlineStr, d, d + 1) =>
                      \E k \in 1..Len(matchesOf(sample, result.newlineStr)) :
                          /\ matchesOf(sample, result.newlineStr)[k].quote = charAt(sample, d + 1)
                          /\ matchesOf(sample, result.newlineStr)[k].delim = charAt(sample, d)

-----------------------------------------------------------------------------
(* The order of the guessers *)

\* C16: when the delimiter option is omitted, result.delimiter is the
\* delimiter of the pattern guesser whenever it finds a validly quoted
\* delimiter in the sample and the result of the frequency guesser only
\* otherwise, whether the quoteChar option is supplied or omitted.
PatternGuesserFirst ==
    (pc = "returned" /\ options.delimiter = Undefined) =>
        \A qd \in {guessQuoteAndDelimiter(sample, result.newlineStr, delimiters, Undefined)} :
            result.delimiter =
                IF accepts(qd) THEN qd.delim
                ELSE guessDelimiter(sample, result.newlineStr, delimiters)

-----------------------------------------------------------------------------
(* Quotes and escapes *)

\* The positions from..(to - 1) of s, in increasing order, that hold a
\* delimiter outside quotes that is not escaped.
PlainDelimiters(s, delimiter, quotechar, from, to) ==
    SelectSeq([j \in 1..(to - from) |-> from + j - 1],
              LAMBDA i : Plain(s, quotechar, i) /\ <<charAt(s, i)>> = delimiter)

\* The fields between the positions from and to, split at the delimiters at
\* the positions of at.
SplitAt(s, delimiter, quotechar, from, to, at) ==
    [f \in 1..(Len(at) + 1) |->
        ValueChars(s, delimiter, quotechar,
                   IF f = 1 THEN from ELSE at[f - 1] + 1,
                   IF f = Len(at) + 1 THEN to ELSE at[f])]

\* A row without its last field when that field is empty.
DropEmptyLast(fields) ==
    IF fields[Len(fields)] = <<>> THEN SubSeq(fields, 1, Len(fields) - 1) ELSE fields

\* C17: the quoted parser closes a field or a row only at a position outside
\* quotes that is not escape-pending.  A delimiter or newline string inside
\* quotes or after an unescaped backslash splits nothing and is appended to
\* the field as it is; an unescaped quote character toggles insideQuotes and
\* is not appended; escape-pending lasts for one character.
ClosedOnlyOutsideQuotes ==
    pc = "parsed" =>
        LET terminators == Terminators(sample, options.newlineStr, options.quoteChar)
        IN  /\ Len(parsedSample) = Len(terminators)
            /\ \A k \in 1..Len(terminators) :
                  parsedSample[k] =
                      DropEmptyLast(SplitAt(sample, options.delimiter, options.quoteChar,
                          RowStart(terminators, k), terminators[k],
                          PlainDelimiters(sample, options.delimiter, options.quoteChar,
                                          RowStart(terminators, k), terminators[k])))

\* A row is parsed with a field that holds the newline string, and a row
\* with a field that holds the delimiter or the quote character.
ClosedOnlyOutsideQuotesReached ==
    /\ pc = "parsed"
    /\ options.newlineStr = LF
    /\ \E k \in 1..Len(parsedSample) : \E f \in 1..Len(parsedSample[k]) :
          \E j \in 1..Len(parsedSample[k][f]) : parsedSample[k][f][j] = "\n"
    /\ \E k \in 1..Len(parsedSample) : \E f \in 1..Len(parsedSample[k]) :
          \E j \in 1..Len(parsedSample[k][f]) : parsedSample[k][f][j] \in {",", "'"}

-----------------------------------------------------------------------------
(* The votes of the columns *)

\* The sum of the squares of the numbers of l.
SumSquares(l) == SumSeq([k \in 1..Len(l) |-> l[k] * l[k]])

\* The length differs from the mean of the lengths l by more than twice
\* their variance.  With n lengths of sum s, the mean is s / n and the
\* variance (n * SumSquares(l) - s * s) / (n * n); both sides are multiplied
\* by n * n.
FarFromMean(length, l) ==
    /\ Len(l) > 0
    /\ Abs(Len(l) * length - SumSeq(l)) * Len(l)
         > 2 * (Len(l) * SumSquares(l) - SumSeq(l) * SumSeq(l))

\* The vote of column i of the table.
ColumnVote(parsed, i) ==
    IF /\ getTypes(parsed).first[i] = "string"
       /\ getTypes(parsed).first[i] # getTypes(parsed).tail[i]
    THEN 2
    ELSE IF FarFromMean(Len(parsed[1][i]), lengthsTail(parsed, i)) THEN 1
    ELSE -1

\* The sum of the votes of the columns of row 0.
TotalVote(parsed) ==
    IF Len(parsed) = 0 THEN 0
    ELSE SumSeq([i \in 1..Len(parsed[1]) |-> ColumnVote(parsed, i)])

\* The call returned with a detected header.
HeaderDetected == pc = "returned" /\ detectsHeader(options)

-----------------------------------------------------------------------------
(* The threshold of the frequency guesser *)

\* The number of rounds of the relaxation, from consistencyStart down to
\* consistencyThreshold in steps of decreaseStep.
RelaxRounds == (consistencyStart - consistencyThreshold) \div decreaseStep

\* The most common number of occurrences of c on a line is not zero, and the
\* mode score of c is at least the threshold of the number of lines.
MeetsThreshold(lines, c) ==
    /\ Len(lines) > 0
    /\ modeOf(lines, c).maxFreq # 0
    /\ modeOf(lines, c).mode * 100 >= consistencyThreshold * Len(lines)

\* The allowed characters that meet the threshold on the lines.
ThresholdCandidates(lines, delims) ==
    {Ascii[i] : i \in {j \in 1..Len(Ascii) :
        allowed(delims, Ascii[j]) /\ MeetsThreshold(lines, Ascii[j])}}

\* C19: guessDelimiter returns a character only if its most common count per
\* line is not zero and its mode score is at least 0.8 of the number of
\* lines; it returns null when no allowed character meets this; and what it
\* finds is found in one of the boundedly many rounds that relax the
\* consistency from 1.0 in steps of 0.01.
DelimiterMeetsThreshold ==
    FrequencyGuessed =>
        LET lines == linesOf(sample, result.newlineStr, 0)
        IN  /\ result.delimiter # Null =>
                  /\ Len(result.delimiter) = 1
                  /\ result.delimiter[1] \in ThresholdCandidates(lines, delimiters)
            /\ ThresholdCandidates(lines, delimiters) = {} => result.delimiter = Null
            /\ \/ result.delimiter = Null
               \/ \E k \in 0..(RelaxRounds - 1) :
                     result.delimiter[1] \in
                         passing(modesOf(lines), Len(lines), delimiters,
                                 consistencyStart - k * decreaseStep)

\* A delimiter is returned after the consistency was relaxed: its mode score
\* is below the number of lines.
DelimiterMeetsThresholdReached ==
    /\ FrequencyGuessed
    /\ result.delimiter # Null
    /\ modeOf(linesOf(sample, result.newlineStr, 0), result.delimiter[1]).mode
         < Len(linesOf(sample, result.newlineStr, 0))
-----------------------------------------------------------------------------
(* The rows of another number of fields *)

\* The table without the rows after the first that have another number of
\* fields than the first.
WithoutMismatching(parsed) ==
    IF Len(parsed) = 0 THEN <<>>
    ELSE <<parsed[1]>> \o SelectSeq(Tail(parsed), LAMBDA cols : Len(cols) = Len(parsed[1]))

\* C20: a row after the first whose number of fields differs from that of the
\* first contributes to no type, to no length statistic and to no warning:
\* hasHeader, types and warnings of the result are those of the parsed table
\* without these rows.
MismatchingRowsIgnored ==
    pc = "returned" =>
        /\ result.hasHeader = hasHeaderData(options, WithoutMismatching(parsedSample)).hasHeader
        /\ result.types = hasHeaderData(options, WithoutMismatching(parsedSample)).types
        /\ result.warnings = warningsOf(options, quoteAndDelim)
        /\ \A w \in 1..Len(result.warnings) :
              result.warnings[w] = differenceWarning(options.delimiter, quoteAndDelim.delim)

\* A row of another number of fields holds a value that would weaken the
\* reported type of its column.
MismatchingRowsIgnoredReached ==
    /\ pc = "returned"
    /\ \E k \in 2..Len(parsedSample) :
          /\ Len(parsedSample[k]) # Len(parsedSample[1])
          /\ \E i \in 1..Len(parsedSample[k]) :
                /\ i <= Len(result.types)
                /\ getAccumulatedType(parsedSample[k][i], result.types[i]) # result.types[i]
-----------------------------------------------------------------------------
(* What a call leaves behind *)

\* C21: a call of sniff writes no state that outlives it: when it has
\* returned or thrown, the delimiters of the sniffer and the variables
\* outside the call, the global ones included, are as they were before.
NoStateOutlivesCall ==
    [][(pc = "idle" /\ pc' # "idle") =>
          /\ delimiters' = delimiters
          /\ quote' = quote
          /\ newlinePos' = newlinePos]_vars

-----------------------------------------------------------------------------
(* Calls in sequence *)

MaxCallLen == 3

\* Short samples with both quote characters.
CallSamples == StringsUpTo({"\n", ",", "'", "\"", "a"}, MaxCallLen)

\* The caller goes on to its next call, on this sniffer or on another one:
\* the arguments, the locals and the result of the last call are gone, and
\* the global variables keep what the last call left in them.
NextCall(delims) ==
    /\ pc \in {"returned", "thrown"}
    /\ pc' = "idle"
    /\ delimiters' = delims
    /\ sample' = <<>>
    /\ options' = NoOptions
    /\ result' = NoResult
    /\ quoteAndDelim' = NoGuess
    /\ parsedSample' = <<>>
    /\ UNCHANGED <<quote, newlinePos, curType, column>>

NextCalls ==
    \/ \E smp \in CallSamples, opts \in AutoOptions : Sniff(smp, opts)
    \/ \E delims \in Sniffers : NextCall(delims)

SpecCalls == Init /\ [][NextCalls]_vars

\* The values the variable quote can hold when a call starts.
QuoteValues == {Undefined, <<"'">>, <<"\"">>}

\* The result of the call for the newline string it resolved, had the
\* variable quote held g when the call started.
ResultWith(smp, opts, delims, newlineStr, g) ==
    LET qd == quoteAndDelimOf(smp, opts, newlineStr, delims, g)
        delimiter == delimiterOf(smp, newlineStr, delims, proposedDelimiter(opts, qd))
        parsed == parseSample(smp, newlineStr, delimiter, quoteCharOf(opts, qd))
    IN  resultOf(newlineStr, delimiter, quoteCharOf(opts, qd), warningsOf(opts, qd),
                 hasHeaderData(opts, parsed), parsed)

\* C22: calls in sequence do not influence each other: the result of a call
\* is the one its sample, its options and the delimiters of its sniffer
\* give, whatever an earlier call left in the variable quote, and the quote
\* that guessQuoteAndDelimiter returns is one voted from the sample of the
\* call.
CallsIndependent ==
    pc = "returned" =>
        /\ \A g \in QuoteValues :
              result = ResultWith(sample, options, delimiters, result.newlineStr, g)
        /\ quoteAndDelim.quote \notin {Null, Undefined} =>
              \E k \in 1..Len(matchesOf(sample, result.newlineStr)) :
                  quoteAndDelim.quote = <<matchesOf(sample, result.newlineStr)[k].quote>>

\* A call whose pattern guesser ran and found no quote in its sample, while
\* the variable quote holds the quote of an earlier call.
CallsIndependentReached ==
    /\ pc = "returned"
    /\ options.quoteChar = Undefined
    /\ quote \in {<<"'">>, <<"\"">>}
    /\ quoteAndDelim.quote = Null
    /\ result.quoteChar = Null

-----------------------------------------------------------------------------
(* The detected delimiter and the quote characters *)

\* C23: when the delimiter option is omitted, the detected result.delimiter
\* is never the single-quote or the double-quote character, whichever
\* guesser produced it, for every sample and every quoteChar option.
DetectedDelimiterNotQuote ==
    (pc = "returned" /\ options.delimiter = Undefined) =>
        result.delimiter \notin {<<"'">>, <<"\"">>}

-----------------------------------------------------------------------------
(* The three profiles of getTypes *)

\* The weaker of two types under integer < float < string.
Weaker(a, b) == IF TypeRank(a) >= TypeRank(b) THEN a ELSE b

\* C24: for every column i of row 0, all[i] of getTypes is the weaker of
\* first[i] and tail[i] under integer < float < string, for every parsed
\* table, the tables of a single row included, where tail[i] is integer.
AllIsWeakerOfFirstAndTail ==
    pc = "returned" =>
        /\ Len(getTypes(parsedSample).all) = (IF Len(parsedSample) = 0 THEN 0
                                              ELSE Len(parsedSample[1]))
        /\ \A i \in 1..Len(getTypes(parsedSample).all) :
              /\ getTypes(parsedSample).all[i] =
                    Weaker(getTypes(parsedSample).first[i], getTypes(parsedSample).tail[i])
              /\ Len(parsedSample) = 1 => getTypes(parsedSample).tail[i] = "integer"

\* The table has a column whose first value is an integer and whose tail is
\* of type float and a column whose first value is text and whose tail is
\* not.
AllIsWeakerOfFirstAndTailReached ==
    /\ pc = "returned"
    /\ \E i \in 1..Len(getTypes(parsedSample).all) :
          /\ getTypes(parsedSample).first[i] = "integer"
          /\ getTypes(parsedSample).tail[i] = "float"
    /\ \E i \in 1..Len(getTypes(parsedSample).all) :
          /\ getTypes(parsedSample).first[i] = "string"
          /\ getTypes(parsedSample).tail[i] # "string"

-----------------------------------------------------------------------------
(* guessDelimiter of src/index.js *)

\* One pass of modes.forEach of src/index.js: its first test reads d.freq,
\* a property the entries { maxFreq, mode } do not have, and undefined == 0
\* is false, so only d.mode <= 0 drops an entry.
passingLegacy(modes, nrLines, delims, consistency) ==
    {m.char : m \in {e \in modes :
        /\ ~(e.mode.mode <= 0)
        /\ e.mode.mode * 100 >= consistency * nrLines
        /\ allowed(delims, e.char)}}

\* while(delims.length == 0 && consistency > threshold)
RECURSIVE relaxLegacy(_, _, _, _)
relaxLegacy(modes, nrLines, delims, consistency) ==
    IF consistency > consistencyThreshold
    THEN IF passingLegacy(modes, nrLines, delims, consistency) # {}
         THEN passingLegacy(modes, nrLines, delims, consistency)
         ELSE relaxLegacy(modes, nrLines, delims, consistency - decreaseStep)
    ELSE {}

\* guessDelimiter of src/index.js; the tables and the modes are built as in
\* src/unnamed/part_001, and delims[0] is returned whenever there is a
\* candidate.
guessDelimiterLegacy(lines, delims) ==
    IF Len(lines) = 0 THEN Null
    ELSE lowest(relaxLegacy(modesOf(lines), Len(lines), delims, consistencyStart))

\* Samples of many lines that are empty or hold one comma.
LegacySamples == LinesUpTo({<<>>, <<",">>}, MaxManyLines)

\* The arguments of guessDelimiter, kept as the sample and the options.
InitLegacy ==
    \E smp \in LegacySamples, delims \in Sniffers :
        /\ delimiters = delims
        /\ pc = "idle"
        /\ sample = smp
        /\ options = [NoOptions EXCEPT !.newlineStr = LF]
        /\ result = NoResult
        /\ quoteAndDelim = NoGuess
        /\ parsedSample = <<>>
        /\ quote = Undefined
        /\ newlinePos = {}
        /\ curType = "integer"
        /\ column = <<>>

\* A call of guessDelimiter of src/index.js; what it returns is kept as the
\* delimiter of the result.
GuessDelimiterLegacy ==
    /\ pc = "idle"
    /\ pc' = "guessed"
    /\ result' = [NoResult EXCEPT !.delimiter =
                     guessDelimiterLegacy(linesOf(sample, options.newlineStr, 0), delimiters)]
    /\ UNCHANGED <<delimiters, sample, options, quoteAndDelim, parsedSample, quote,
                   newlinePos, curType, column>>

SpecLegacy == InitLegacy /\ [][GuessDelimiterLegacy]_vars

\* C25: guessDelimiter of src/index.js never proposes a character whose most
\* common number of occurrences per line is zero, a character absent from
\* most lines: such a character is no candidate in any round, as in
\* src/unnamed/part_001.
LegacyNeverProposesAbsent ==
    (pc = "guessed" /\ result.delimiter # Null) =>
        modeOf(linesOf(sample, options.newlineStr, 0), result.delimiter[1]).maxFreq # 0

=============================================================================
